---- MODULE Spec2Model ----
(***************************************************************************)
(* Model of the SMS API service (src/main.py): the configuration registry  *)
(* (apis_config, variables) with its loader, the template resolver         *)
(* build_api_list, the per-endpoint call call_api_sync and the fan-out     *)
(* handler api_v1.                                                         *)
(*                                                                         *)
(* Text is modelled as a sequence of one-character strings wherever the    *)
(* code slices, searches or rewrites it (urls, methods, phone numbers,     *)
(* response bodies and error messages).  Names, dictionary keys and header *)
(* values, which the code only compares for equality, are atomic strings.  *)
(* A Python dict is a record (a function from keys to values); an ordered  *)
(* dict that the code iterates is a sequence of <<key, value>> pairs.      *)
(* Optional[T] is a sequence of length at most one.                        *)
(***************************************************************************)
EXTENDS Integers, Sequences, FiniteSets, TLC

VARIABLES
    file,           \* content of apis.json, as the environment left it
    apis_config,    \* global apis_config: sequence of <<api_name, api_data>>
    variables,      \* global variables: record name -> value
    lastLoad,       \* what the latest load_config call logged
    loadedOnce,     \* some load_config call has succeeded
    app,            \* lifespan position: "starting", "running", "stopped"
    reloader,       \* reload_config_periodically: "none", "sleeping", "cancelled"
    reload_reply,   \* apis_count of the latest /reload-config reply, if any
    pc,             \* per request: position of api_v1
    query,          \* per request: the phone and mobile query parameters
    mobile_number,  \* per request: phone or mobile
    templates,      \* per request: the registry content build_api_list iterated
    apis,           \* per request: build_api_list's result
    tasks,          \* per request: one record per call_api_concurrent task
    order,          \* per request: task indices in the order they completed
    netCalls,       \* per request: task indices that issued network I/O
    report,         \* per request: the APIResponse returned, if any
    call_api,       \* single-call specification: the resolved request
    call_outcome,   \* single-call specification: what the network did
    call_result,    \* single-call specification: the APIResult, if computed
    call_request,   \* single-call specification: the HTTP request issued, if any
    res_in,         \* single-resolution specification: name, template, variables, phone
    res_out         \* single-resolution specification: the resolved request, if computed

vars == <<file, apis_config, variables, lastLoad, loadedOnce, app, reloader,
          reload_reply, pc, query, mobile_number, templates, apis, tasks, order, netCalls, report,
          call_api, call_outcome, call_result, call_request, res_in, res_out>>

regVars  == <<file, apis_config, variables, lastLoad, loadedOnce, app, reloader,
             reload_reply>>
reqVars  == <<pc, query, mobile_number, templates, apis, tasks, order, netCalls, report>>
callVars == <<call_api, call_outcome, call_result, call_request, res_in, res_out>>

----------------------------------------------------------------------------
(* Python values *)

None == <<>>
Some(v) == <<v>>

\* dict.get(k, default)
DictGet(d, k, default) == IF k \in DOMAIN d THEN d[k] ELSE default

EmptyDict == <<>>
EmptyStr == <<>>

Min(a, b) == IF a < b THEN a ELSE b

\* s[:n]
Slice(s, n) == SubSeq(s, 1, Min(n, Len(s)))

\* s.startswith(p)
StartsWith(s, p) == Len(p) <= Len(s) /\ SubSeq(s, 1, Len(p)) = p

\* p in s
RECURSIVE Contains(_, _)
Contains(s, p) ==
    IF Len(s) < Len(p) THEN FALSE
    ELSE IF StartsWith(s, p) THEN TRUE
    ELSE Contains(Tail(s), p)

\* s.replace(old, new): every non-overlapping occurrence, left to right
RECURSIVE Replace(_, _, _)
Replace(s, old, new) ==
    IF Len(s) < Len(old) THEN s
    ELSE IF StartsWith(s, old)
         THEN new \o Replace(SubSeq(s, Len(old) + 1, Len(s)), old, new)
         ELSE <<s[1]>> \o Replace(Tail(s), old, new)

UPPERCASE ==
    <<"A", "B", "C", "D", "E", "F", "G", "H", "I", "J", "K", "L", "M",
      "N", "O", "P", "Q", "R", "S", "T", "U", "V", "W", "X", "Y", "Z">>
LOWERCASE ==
    <<"a", "b", "c", "d", "e", "f", "g", "h", "i", "j", "k", "l", "m",
      "n", "o", "p", "q", "r", "s", "t", "u", "v", "w", "x", "y", "z">>

LowerChar(c) ==
    IF \E k \in 1..Len(UPPERCASE) : UPPERCASE[k] = c
    THEN LOWERCASE[CHOOSE k \in 1..Len(UPPERCASE) : UPPERCASE[k] = c]
    ELSE c

\* s.lower()
Lower(s) == [i \in 1..Len(s) |-> LowerChar(s[i])]

\* s.endswith(p)
EndsWith(s, p) == Len(p) <= Len(s) /\ SubSeq(s, Len(s) - Len(p) + 1, Len(s)) = p

NUMBER == <<"{", "n", "u", "m", "b", "e", "r", "}">>
POST == <<"p", "o", "s", "t">>
GET == <<"g", "e", "t">>

FORM_TYPE ==
    <<"a", "p", "p", "l", "i", "c", "a", "t", "i", "o", "n", "/", "x", "-",
      "w", "w", "w", "-", "f", "o", "r", "m", "-", "u", "r", "l", "e", "n",
      "c", "o", "d", "e", "d">>

\* the text of a header name or value
Chars(a) ==
    CASE a = "content-type" ->
        <<"c", "o", "n", "t", "e", "n", "t", "-", "t", "y", "p", "e">>
      [] a = "Content-Type" ->
        <<"C", "o", "n", "t", "e", "n", "t", "-", "T", "y", "p", "e">>
      [] a = "CONTENT-TYPE" ->
        <<"C", "O", "N", "T", "E", "N", "T", "-", "T", "Y", "P", "E">>
      [] a = "auth" ->
        <<"a", "u", "t", "h">>
      [] a = "accept" ->
        <<"a", "c", "c", "e", "p", "t">>
      [] a = "application/x-www-form-urlencoded" ->
        <<"a", "p", "p", "l", "i", "c", "a", "t", "i", "o", "n", "/", "x",
          "-", "w", "w", "w", "-", "f", "o", "r", "m", "-", "u", "r", "l",
          "e", "n", "c", "o", "d", "e", "d">>
      [] a = "Application/X-WWW-Form-UrlEncoded; charset=UTF-8" ->
        <<"A", "p", "p", "l", "i", "c", "a", "t", "i", "o", "n", "/", "X",
          "-", "W", "W", "W", "-", "F", "o", "r", "m", "-", "U", "r", "l",
          "E", "n", "c", "o", "d", "e", "d", ";", " ", "c", "h", "a", "r",
          "s", "e", "t", "=", "U", "T", "F", "-", "8">>
      [] a = "application/json" ->
        <<"a", "p", "p", "l", "i", "c", "a", "t", "i", "o", "n", "/", "j",
          "s", "o", "n">>
      [] a = "" ->
        <<>>

----------------------------------------------------------------------------
(* json.loads on text, for documents without escapes, fractions and        *)
(* exponents.  A JSON value is a tagged record: a string [t: "str", s],    *)
(* an integer [t: "num", n: its digits], a literal [t: "lit", s], an array *)
(* [t: "arr", items] or an object [t: "obj", items: <<key, value>> pairs]. *)

JsonWs == {" ", "\t", "\n", "\r"}
JsonDigits == {"0", "1", "2", "3", "4", "5", "6", "7", "8", "9"}
JsonFail == [ok |-> FALSE]

\* the index of the first character at or after i that is not whitespace
RECURSIVE SkipWs(_, _)
SkipWs(s, i) == IF i <= Len(s) /\ s[i] \in JsonWs THEN SkipWs(s, i + 1) ELSE i

\* the index of the first character at or after i that is not a digit
RECURSIVE SkipDigits(_, _)
SkipDigits(s, i) == IF i <= Len(s) /\ s[i] \in JsonDigits THEN SkipDigits(s, i + 1) ELSE i

\* the index of the quote that closes a string whose content starts at i, or 0
RECURSIVE ClosingQuote(_, _)
ClosingQuote(s, i) ==
    IF i > Len(s) \/ s[i] \in {"\\", "\n", "\r", "\t"} THEN 0
    ELSE IF s[i] = "\"" THEN i
    ELSE ClosingQuote(s, i + 1)

\* a string starting at the quote at i
JsonString(s, i) ==
    LET j == ClosingQuote(s, i + 1) IN
    IF j = 0 THEN JsonFail
    ELSE [ok |-> TRUE, v |-> [t |-> "str", s |-> SubSeq(s, i + 1, j - 1)], next |-> j + 1]

\* an integer starting at i: an optional minus, then 0 or digits without a leading 0
JsonNumber(s, i) ==
    LET d == IF s[i] = "-" THEN i + 1 ELSE i
        e == SkipDigits(s, d)
    IN  IF e = d \/ (s[d] = "0" /\ e > d + 1) THEN JsonFail
        ELSE [ok |-> TRUE, v |-> [t |-> "num", n |-> SubSeq(s, i, e - 1)], next |-> e]

JsonLiterals == {<<"t", "r", "u", "e">>, <<"f", "a", "l", "s", "e">>, <<"n", "u", "l", "l">>}

\* true, false or null starting at i
JsonLiteral(s, i) ==
    IF \E w \in JsonLiterals : StartsWith(SubSeq(s, i, Len(s)), w)
    THEN LET w == CHOOSE w \in JsonLiterals : StartsWith(SubSeq(s, i, Len(s)), w)
         IN [ok |-> TRUE, v |-> [t |-> "lit", s |-> w], next |-> i + Len(w)]
    ELSE JsonFail

RECURSIVE JsonValueAt(_, _), JsonElements(_, _, _), JsonMembers(_, _, _)

\* the value that starts at i (whitespace already skipped)
JsonValueAt(s, i) ==
    IF i > Len(s) THEN JsonFail
    ELSE IF s[i] = "\"" THEN JsonString(s, i)
    ELSE IF s[i] = "[" THEN
        LET j == SkipWs(s, i + 1) IN
        IF j <= Len(s) /\ s[j] = "]"
        THEN [ok |-> TRUE, v |-> [t |-> "arr", items |-> <<>>], next |-> j + 1]
        ELSE JsonElements(s, j, <<>>)
    ELSE IF s[i] = "{" THEN
        LET j == SkipWs(s, i + 1) IN
        IF j <= Len(s) /\ s[j] = "}"
        THEN [ok |-> TRUE, v |-> [t |-> "obj", items |-> <<>>], next |-> j + 1]
        ELSE JsonMembers(s, j, <<>>)
    ELSE IF s[i] \in JsonDigits \cup {"-"} THEN JsonNumber(s, i)
    ELSE JsonLiteral(s, i)

\* the elements of an array from i on, after those in acc
JsonElements(s, i, acc) ==
    LET r == JsonValueAt(s, i) IN
    IF ~r.ok THEN JsonFail
    ELSE LET j == SkipWs(s, r.next) IN
         IF j > Len(s) THEN JsonFail
         ELSE IF s[j] = "]"
              THEN [ok |-> TRUE, v |-> [t |-> "arr", items |-> Append(acc, r.v)],
                    next |-> j + 1]
         ELSE IF s[j] = ","
              THEN JsonElements(s, SkipWs(s, j + 1), Append(acc, r.v))
         ELSE JsonFail

\* the members of an object from i on, after those in acc
JsonMembers(s, i, acc) ==
    IF i > Len(s) \/ s[i] /= "\"" THEN JsonFail
    ELSE LET k == JsonString(s, i) IN
         IF ~k.ok THEN JsonFail
         ELSE LET c == SkipWs(s, k.next) IN
              IF c > Len(s) \/ s[c] /= ":" THEN JsonFail
              ELSE LET r == JsonValueAt(s, SkipWs(s, c + 1)) IN
                   IF ~r.ok THEN JsonFail
                   ELSE LET j == SkipWs(s, r.next)
                            items == Append(acc, <<k.v.s, r.v>>)
                        IN  IF j > Len(s) THEN JsonFail
                            ELSE IF s[j] = "}"
                                 THEN [ok |-> TRUE, v |-> [t |-> "obj", items |-> items],
                                       next |-> j + 1]
                            ELSE IF s[j] = ","
                                 THEN JsonMembers(s, SkipWs(s, j + 1), items)
                            ELSE JsonFail

\* json.loads(s): the value, or a failure (json.JSONDecodeError)
json_loads(s) ==
    LET r == JsonValueAt(s, SkipWs(s, 1)) IN
    IF r.ok /\ SkipWs(s, r.next) > Len(s) THEN [ok |-> TRUE, v |-> r.v] ELSE JsonFail

----------------------------------------------------------------------------
(* The configuration source: what apis.json can hold.  The documents follow *)
(* the data model: names, header values and variable values are strings,   *)
(* urls and methods are text, and no endpoint declares a body.             *)

DocA ==
    [apis |-> <<
        <<"a1", [name |-> "One",
                 url |-> <<"h", "/">> \o NUMBER,
                 method |-> <<"G", "E", "T">>,
                 headers |-> << <<"auth", "TOKEN">>, <<"accept", "json">> >>]>>,
        <<"a2", [url |-> <<"p", "?", "n", "=">> \o NUMBER \o <<"&">> \o NUMBER,
                 method |-> <<"P", "O", "S", "T">>,
                 headers |-> << <<"auth", "TOKENS">> >>]>> >>,
     variables |-> [TOKEN |-> "secretA"]]

DocB ==
    [apis |-> <<
        <<"b1", [name |-> "NoUrl", url |-> EmptyStr]>>,
        <<"b2", [url |-> <<"q", "/">> \o NUMBER,
                 headers |-> << <<"auth", "TOKEN">> >>]>>,
        <<"b3", [method |-> <<"P", "U", "T">>]>> >>,
     variables |-> [TOKEN |-> "secretB", KEY |-> "k"]]

\* a valid document without the "apis" and "variables" keys
DocNone == EmptyDict

\* body templates: literal strings
BodyObject ==
    [t |-> "str", s |->
        <<"{", "\"", "t", "o", "\"", ":", "\"", "{", "n", "u", "m", "b", "e",
          "r", "}", "\"", "}">>]
BodyBareNumber ==
    [t |-> "str", s |->
        <<"{", "\"", "t", "o", "\"", ":", "{", "n", "u", "m", "b", "e", "r",
          "}", "}">>]
BodyBadBraces ==
    [t |-> "str", s |->
        <<"{", "t", "o", "=", "{", "n", "u", "m", "b", "e", "r", "}", "}">>]
BodyArray ==
    [t |-> "str", s |->
        <<"[", "\"", "{", "n", "u", "m", "b", "e", "r", "}", "\"", ",", " ",
          "\"", "x", "\"", "]">>]
BodyPadded ==
    [t |-> "str", s |->
        <<" ", "{", "\"", "t", "o", "\"", ":", "\"", "{", "n", "u", "m", "b",
          "e", "r", "}", "\"", "}", " ">>]
BodyNewline ==
    [t |-> "str", s |->
        <<"{", "\"", "t", "o", "\"", ":", "\"", "{", "n", "u", "m", "b", "e",
          "r", "}", "\"", "}", "\n">>]
BodyMixed ==
    [t |-> "str", s |->
        <<"[", "\"", "{", "n", "u", "m", "b", "e", "r", "}", "\"", "}">>]
BodyForm ==
    [t |-> "str", s |->
        <<"t", "o", "=", "{", "n", "u", "m", "b", "e", "r", "}", "&", "n",
          "=", "{", "n", "u", "m", "b", "e", "r", "}">>]

\* a body template that is already structured: {"to": "{number}"}
BodyStructured ==
    [t |-> "obj", items |-> << <<<<"t", "o">>, [t |-> "str", s |-> NUMBER]>> >>]

\* a body template that is null
BodyNull == [t |-> "lit", s |-> <<"n", "u", "l", "l">>]

\* endpoints that declare bodies and content types
DocC ==
    [apis |-> <<
        <<"c1", [url |-> <<"g">>, method |-> <<"g", "e", "t">>,
                 headers |-> << <<"content-type", "application/x-www-form-urlencoded">> >>,
                 body |-> BodyStructured]>>,
        <<"c2", [url |-> <<"f">>,
                 headers |-> << <<"content-type", "application/x-www-form-urlencoded">> >>,
                 body |-> BodyForm]>>,
        <<"c3", [url |-> <<"f">>, method |-> <<"P", "o", "s", "t">>,
                 headers |-> << <<"content-type", "Application/X-WWW-Form-UrlEncoded; charset=UTF-8">> >>,
                 body |-> BodyStructured]>>,
        <<"c4", [url |-> <<"f">>,
                 headers |-> << <<"Content-Type", "application/x-www-form-urlencoded">> >>,
                 body |-> BodyStructured]>>,
        <<"c5", [url |-> <<"j">>,
                 headers |-> << <<"content-type", "application/json">> >>,
                 body |-> BodyObject]>>,
        <<"c6", [url |-> <<"r">>, method |-> <<"P", "U", "T">>, body |-> BodyForm]>>,
        <<"c7", [url |-> <<"r">>]>>,
        <<"c8", [url |-> <<"f">>,
                 headers |-> << <<"auth", "TOKEN">>, <<"content-type", "CT">> >>,
                 body |-> BodyStructured]>>,
        <<"c9", [url |-> <<"r">>, body |-> BodyNull]>>,
        <<"c10", [url |-> <<"j">>, body |-> BodyArray]>> >>,
     variables |-> [TOKEN |-> "secretC", CT |-> "application/x-www-form-urlencoded"]]

\* endpoints whose urls, header values and bodies come close to the
\* placeholders without being them, and variables that name each other
DocD ==
    [apis |-> <<
        <<"d1", [url |-> NUMBER \o NUMBER,
                 headers |-> << <<"auth", "TOKEN">>, <<"accept", "KEY">>,
                                <<"content-type", "TOKENS">>, <<"Content-Type", "token">> >>,
                 body |-> BodyPadded]>>,
        <<"d2", [url |-> <<"{", "n", "u", "m", "b", "e", "r">>
                         \o <<"{", "N", "u", "m", "b", "e", "r", "}">>
                         \o <<"{", "T", "O", "K", "E", "N", "}", "T", "O", "K", "E", "N">>,
                 body |-> BodyNewline]>>,
        <<"d3", [url |-> <<"a", "{">> \o NUMBER \o <<"}", "b">> \o NUMBER,
                 headers |-> << <<"auth", "">> >>,
                 body |-> BodyBareNumber]>>,
        <<"d4", [url |-> <<"u">>, body |-> BodyBadBraces]>>,
        <<"d5", [method |-> <<"G", "e", "T">>, body |-> BodyMixed]>>,
        <<"d6", [url |-> <<"u">>, body |-> BodyArray]>> >>,
     variables |-> [TOKEN |-> "KEY", KEY |-> "TOKEN"]]

\* an entry that is JSON null instead of an object; in an entry that is an
\* object, the field "null" lists the keys whose value is JSON null
NullEntry == [null |-> {"entry"}]

\* an endpoint whose name is null, between two well-formed endpoints
DocE ==
    [apis |-> <<
        <<"e1", [name |-> "First", url |-> <<"h", "/">> \o NUMBER]>>,
        <<"e2", [null |-> {"name"}, url |-> <<"n", "/">> \o NUMBER]>>,
        <<"e3", [name |-> "Last", url |-> <<"q">>, method |-> <<"G", "E", "T">>]>> >>,
     variables |-> EmptyDict]

\* an endpoint whose url is null, between two well-formed endpoints
DocF ==
    [apis |-> <<
        <<"f1", [name |-> "First", url |-> <<"h", "/">> \o NUMBER]>>,
        <<"f2", [name |-> "NullUrl", null |-> {"url"}]>>,
        <<"f3", [name |-> "Last", url |-> <<"q">>]>> >>,
     variables |-> EmptyDict]

\* a null entry, a null method and null headers
DocG ==
    [apis |-> <<
        <<"g1", NullEntry>>,
        <<"g2", [url |-> <<"q">>, null |-> {"method"}]>>,
        <<"g3", [url |-> <<"q">>, null |-> {"headers"}]>> >>,
     variables |-> EmptyDict]

FileDocs == {"docA", "docB", "docNone"}
FileOddDocs == {"docE", "docF", "docG"}
FileBad == {"missing", "malformed", "list"}
FileStates == FileDocs \cup FileBad

\* json.load(f) of a well-formed document
JsonValue(f) ==
    CASE f = "docA" -> [t |-> "dict", v |-> DocA]
      [] f = "docB" -> [t |-> "dict", v |-> DocB]
      [] f = "docNone" -> [t |-> "dict", v |-> DocNone]
      [] f = "list" -> [t |-> "list"]
      [] f = "docE" -> [t |-> "dict", v |-> DocE]
      [] f = "docF" -> [t |-> "dict", v |-> DocF]
      [] f = "docG" -> [t |-> "dict", v |-> DocG]

----------------------------------------------------------------------------
(* Registry: load_config and the operations that call it *)

\* load_config that replaces apis_config and leaves variables as it was
load_config_partial(f) ==
    IF f \in FileDocs
    THEN [apis_config |-> DictGet(JsonValue(f).v, "apis", EmptyDict),
          variables |-> variables, log |-> "loaded"]
    ELSE [apis_config |-> EmptyDict, variables |-> EmptyDict,
          log |-> IF f = "missing" THEN "not_found"
                  ELSE IF f = "malformed" THEN "bad_json" ELSE "error"]

\* load_config that falls back to a built-in endpoint set when the file
\* cannot be loaded
load_config_builtin(f) ==
    IF f \in FileDocs
    THEN [apis_config |-> DictGet(JsonValue(f).v, "apis", EmptyDict),
          variables |-> DictGet(JsonValue(f).v, "variables", EmptyDict),
          log |-> "loaded"]
    ELSE [apis_config |-> DocA.apis, variables |-> DocA.variables,
          log |-> IF f = "missing" THEN "not_found"
                  ELSE IF f = "malformed" THEN "bad_json" ELSE "error"]

\* load_config that adds what it read to what the registry already holds
load_config_merging(f) ==
    IF f \in FileDocs
    THEN [apis_config |-> apis_config \o DictGet(JsonValue(f).v, "apis", EmptyDict),
          variables |-> DictGet(JsonValue(f).v, "variables", EmptyDict) @@ variables,
          log |-> "loaded"]
    ELSE [apis_config |-> EmptyDict, variables |-> EmptyDict,
          log |-> IF f = "missing" THEN "not_found"
                  ELSE IF f = "malformed" THEN "bad_json" ELSE "error"]

\* load_config: the values it leaves in the two globals, and what it logs
load_config(f) ==
    IF f = "missing" THEN
        [apis_config |-> EmptyDict, variables |-> EmptyDict, log |-> "not_found"]
    ELSE IF f = "malformed" THEN
        [apis_config |-> EmptyDict, variables |-> EmptyDict, log |-> "bad_json"]
    ELSE LET config == JsonValue(f) IN
        IF config.t /= "dict" THEN
            [apis_config |-> EmptyDict, variables |-> EmptyDict, log |-> "error"]
        ELSE
            [apis_config |-> DictGet(config.v, "apis", EmptyDict),
             variables |-> DictGet(config.v, "variables", EmptyDict),
             log |-> "loaded"]

\* one call of load_config, start to end (it never awaits)
LoadConfig ==
    LET r == load_config(file) IN
    /\ apis_config' = r.apis_config
    /\ variables' = r.variables
    /\ lastLoad' = r.log
    /\ loadedOnce' = (loadedOnce \/ r.log = "loaded")

\* lifespan, up to the yield
Startup ==
    /\ app = "starting"
    /\ LoadConfig
    /\ app' = "running"
    /\ reloader' = "sleeping"
    /\ UNCHANGED <<file, reload_reply>>
    /\ UNCHANGED reqVars
    /\ UNCHANGED callVars

\* a reloader whose loop ends when load_config fails
PeriodicReloadUntilFailure ==
    /\ reloader = "sleeping"
    /\ LoadConfig
    /\ reloader' = IF load_config(file).log = "loaded" THEN "sleeping" ELSE "ended"
    /\ UNCHANGED <<file, app, reload_reply>>
    /\ UNCHANGED reqVars
    /\ UNCHANGED callVars

\* reload_config_periodically: the sleep ends and load_config runs
PeriodicReload ==
    /\ reloader = "sleeping"
    /\ LoadConfig
    /\ UNCHANGED <<file, app, reloader, reload_reply>>
    /\ UNCHANGED reqVars
    /\ UNCHANGED callVars

\* GET /reload-config
reload_config_endpoint ==
    /\ app = "running"
    /\ LoadConfig
    /\ reload_reply' = Some(Len(apis_config'))
    /\ UNCHANGED <<file, app, reloader>>
    /\ UNCHANGED reqVars
    /\ UNCHANGED callVars

\* lifespan, after the yield
Shutdown ==
    /\ app = "running"
    /\ app' = "stopped"
    /\ reloader' = "cancelled"
    /\ UNCHANGED <<file, apis_config, variables, lastLoad, loadedOnce, reload_reply>>
    /\ UNCHANGED reqVars
    /\ UNCHANGED callVars

\* the environment rewrites, removes or corrupts apis.json
EditFile ==
    /\ app /= "stopped"
    /\ \E f \in FileStates \ {file} : file' = f
    /\ UNCHANGED <<apis_config, variables, lastLoad, loadedOnce, app, reloader,
                   reload_reply>>
    /\ UNCHANGED reqVars
    /\ UNCHANGED callVars

----------------------------------------------------------------------------
(* Template resolver: build_api_list *)

\* substitution applied again to a substituted value
ResolveHeadersChained(headers, vmap) ==
    [i \in 1..Len(headers) |->
        IF headers[i][2] \in DOMAIN vmap
        THEN <<headers[i][1],
               IF vmap[headers[i][2]] \in DOMAIN vmap
               THEN vmap[vmap[headers[i][2]]]
               ELSE vmap[headers[i][2]]>>
        ELSE headers[i]]

\* the headers loop: exact-match substitution of variable names
ResolveHeaders(headers, vmap) ==
    [i \in 1..Len(headers) |->
        IF headers[i][2] \in DOMAIN vmap
        THEN <<headers[i][1], vmap[headers[i][2]]>>
        ELSE headers[i]]

\* s.replace(old, new, 1): the first occurrence only
RECURSIVE ReplaceFirst(_, _, _)
ReplaceFirst(s, old, new) ==
    IF Len(s) < Len(old) THEN s
    ELSE IF StartsWith(s, old)
         THEN new \o SubSeq(s, Len(old) + 1, Len(s))
         ELSE <<s[1]>> \o ReplaceFirst(Tail(s), old, new)

ResolveUrlOnce(url, mobile) ==
    IF Contains(url, NUMBER) THEN ReplaceFirst(url, NUMBER, mobile) ELSE url

\* the url step
ResolveUrl(url, mobile) ==
    IF Contains(url, NUMBER) THEN Replace(url, NUMBER, mobile) ELSE url

\* isinstance(body, str); a body is a JSON value as json_loads builds them,
\* a null body being [t |-> "lit", s |-> "null"]
IsStr(body) == body.t = "str"

\* the test that makes the body step try json.loads
LooksLikeJson(text) ==
    \/ StartsWith(text, <<"{">>) /\ EndsWith(text, <<"}">>)
    \/ StartsWith(text, <<"[">>) /\ EndsWith(text, <<"]">>)

\* the body step, for a declared body
ResolveBody(body, mobile) ==
    IF IsStr(body) THEN
        LET text == Replace(body.s, NUMBER, mobile) IN
        IF LooksLikeJson(text) /\ json_loads(text).ok
        THEN json_loads(text).v
        ELSE [t |-> "str", s |-> text]
    ELSE body

\* the keys of a JSON object that hold null: an object {"name": "x", "url": null}
\* is the record [name |-> "x", null |-> {"url"}]
IsNull(d, k) == k \in DictGet(d, "null", {})

\* one iteration of the loop over apis_config.items(), for a template whose
\* url, method and headers have the declared types
ResolveEntry(api_name, api_data, vmap, mobile) ==
    (IF IsNull(api_data, "name") THEN [null |-> {"name"}]
     ELSE [name |-> DictGet(api_data, "name", api_name)])
    @@ [url |-> ResolveUrl(DictGet(api_data, "url", EmptyStr), mobile),
        method |-> Lower(DictGet(api_data, "method", POST)),
        headers |-> ResolveHeaders(DictGet(api_data, "headers", EmptyDict), vmap)]
    @@ (IF "body" \in DOMAIN api_data
        THEN [body |-> ResolveBody(api_data.body, mobile)]
        ELSE EmptyDict)

\* the loop body raises on this entry: .get on an entry that is not a dict,
\* .lower() on a null method, .items() on null headers, `in` on a null url
EntryRaises(api_data) ==
    \/ IsNull(api_data, "entry")
    \/ IsNull(api_data, "method")
    \/ IsNull(api_data, "headers")
    \/ IsNull(api_data, "url")

\* build_api_list has no try: what one iteration raises leaves the function
BuildRaises(config) == \E i \in 1..Len(config) : EntryRaises(config[i][2])

\* build_api_list over a given registry content
ResolveAll(config, vmap, mobile) ==
    [i \in 1..Len(config) |-> ResolveEntry(config[i][1], config[i][2], vmap, mobile)]

\* build_api_list that resolves for the phone number of a request already in
\* flight, when there is one
build_api_list_shared(mobile) ==
    LET others == {q \in DOMAIN pc : pc[q] = "gather"} IN
    ResolveAll(apis_config, variables,
               IF others = {} THEN mobile
               ELSE mobile_number[CHOOSE q \in others : TRUE][1])

\* build_api_list(mobile): reads the two globals
build_api_list(mobile) == ResolveAll(apis_config, variables, mobile)

\* build_api_list that writes each resolved entry back under its key
TemplatesResolvedInPlace(config, vmap, mobile) ==
    [i \in 1..Len(config) |->
        <<config[i][1], ResolveEntry(config[i][1], config[i][2], vmap, mobile)>>]

\* what build_api_list leaves in apis_config: it has no global statement,
\* reads api_data with .get, .items and [] and writes only its own api_entry
TemplatesAfterBuild(config, vmap, mobile) == config

----------------------------------------------------------------------------
(* Dispatcher: call_api_sync *)

TIMEOUT_MSG ==
    <<"R", "e", "q", "u", "e", "s", "t", " ", "t", "i", "m", "e", "o", "u", "t",
      " ", "(", "1", "5", "s", ")">>
CONNECTION_MSG ==
    <<"C", "o", "n", "n", "e", "c", "t", "i", "o", "n", " ", "f", "a", "i", "l",
      "e", "d">>

\* str() of the ValidationError that APIResult raises for name=None
VALIDATION_MSG ==
    <<"1", " ", "v", "a", "l", "i", "d", "a", "t", "i", "o", "n", " ", "e",
      "r", "r", "o", "r", " ", "f", "o", "r", " ", "A", "P", "I", "R", "e",
      "s", "u", "l", "t", "\n", "n", "a", "m", "e", "\n", " ", " ", "I", "n",
      "p", "u", "t", " ", "s", "h", "o", "u", "l", "d", " ", "b", "e", " ",
      "a", " ", "v", "a", "l", "i", "d", " ", "s", "t", "r", "i", "n", "g",
      " ", "[", "t", "y", "p", "e", "=", "s", "t", "r", "i", "n", "g", "_",
      "t", "y", "p", "e", ",", " ", "i", "n", "p", "u", "t", "_", "v", "a",
      "l", "u", "e", "=", "N", "o", "n", "e", ",", " ", "i", "n", "p", "u",
      "t", "_", "t", "y", "p", "e", "=", "N", "o", "n", "e", "T", "y", "p",
      "e", "]", "\n", " ", " ", " ", " ", "F", "o", "r", " ", "f", "u", "r",
      "t", "h", "e", "r", " ", "i", "n", "f", "o", "r", "m", "a", "t", "i",
      "o", "n", " ", "v", "i", "s", "i", "t", " ", "h", "t", "t", "p", "s",
      ":", "/", "/", "e", "r", "r", "o", "r", "s", ".", "p", "y", "d", "a",
      "n", "t", "i", "c", ".", "d", "e", "v", "/", "2", ".", "5", "/", "v",
      "/", "s", "t", "r", "i", "n", "g", "_", "t", "y", "p", "e">>

\* the slice length of response_text[:150] and str(e)[:150]
EXCERPT == 150

\* the APIResult model; the extra keyword `reason` is not a field and is dropped
\* a result model whose status code defaults to 0 instead of None
APIResultZeroCode(name, status, status_code, response, error) ==
    [name |-> name, status |-> status,
     status_code |-> IF status_code = None THEN Some(0) ELSE status_code,
     response |-> response, error |-> error]

APIResult(name, status, status_code, response, error) ==
    [name |-> name, status |-> status, status_code |-> status_code,
     response |-> response, error |-> error]

\* the ladder without its final `else`: unlisted codes below 400 fall to "error"
ResultStatusStrict(status_code) ==
    IF status_code \in {200, 201, 202} THEN "sent"
    ELSE IF status_code \in {400, 401, 403} THEN "auth_error"
    ELSE IF status_code = 404 THEN "not_found"
    ELSE IF status_code = 429 THEN "rate_limited"
    ELSE IF status_code = 500 THEN "server_error"
    ELSE "error"

\* the status-code ladder
ResultStatus(status_code) ==
    IF status_code \in {200, 201, 202} THEN "sent"
    ELSE IF status_code \in {400, 401, 403} THEN "auth_error"
    ELSE IF status_code = 404 THEN "not_found"
    ELSE IF status_code = 429 THEN "rate_limited"
    ELSE IF status_code = 500 THEN "server_error"
    ELSE IF status_code >= 400 THEN "error"
    ELSE "sent"

\* no check of the url before the request is issued
NeverSkips(api_config) == FALSE

\* `if not url`: the call returns before any network I/O
SkipsNetwork(api_config) == api_config.url = EmptyStr

NoOutcome == [kind |-> "none"]

\* call_api_sync without the two specific except clauses and without the slice
call_api_sync_generic(api_config, outcome) ==
    LET name == DictGet(api_config, "name", "unknown") IN
    IF api_config.url = EmptyStr THEN
        APIResult(name, "skipped", None, None, None)
    ELSE IF outcome.kind = "response" THEN
        APIResult(name, "sent", Some(outcome.status), Some(outcome.text), None)
    ELSE
        APIResult(name, "error", None, None,
                  Some(IF outcome.kind = "other" THEN outcome.msg ELSE EmptyStr))

\* call_api_sync: the APIResult for a resolved request, given what the network
\* did with the request (a response, a timeout, a connection failure or another
\* exception); the outcome is not looked at when the url is empty
call_api_sync(api_config, outcome) ==
    LET name == DictGet(api_config, "name", "unknown") IN
    IF IsNull(api_config, "name") THEN
        [exception |-> VALIDATION_MSG]
    ELSE IF SkipsNetwork(api_config) THEN
        APIResult(name, "skipped", None, None, None)
    ELSE IF outcome.kind = "response" THEN
        APIResult(name, ResultStatus(outcome.status), Some(outcome.status),
                  IF outcome.text /= EmptyStr
                  THEN Some(Slice(outcome.text, EXCERPT)) ELSE None,
                  None)
    ELSE IF outcome.kind = "timeout" THEN
        APIResult(name, "timeout", None, None, Some(TIMEOUT_MSG))
    ELSE IF outcome.kind = "connection" THEN
        APIResult(name, "connection_error", None, None, Some(CONNECTION_MSG))
    ELSE
        APIResult(name, "error", None, None, Some(Slice(outcome.msg, EXCERPT)))

\* headers.get(key, default) on a resolved header list
RECURSIVE HeaderGet(_, _, _)
HeaderGet(headers, key, default) ==
    IF headers = <<>> THEN default
    ELSE IF headers[Len(headers)][1] = key THEN headers[Len(headers)][2]
    ELSE HeaderGet(SubSeq(headers, 1, Len(headers) - 1), key, default)

\* isinstance(body, (dict, list))
IsStructured(body) == body.t \in {"obj", "arr"}

\* the request call_api_sync hands to the session: the verb, and for a POST
\* the keyword that carries the body (data= or json=)
HttpRequest(api_config) ==
    LET method == DictGet(api_config, "method", POST)
        headers == DictGet(api_config, "headers", EmptyDict)
        body == DictGet(api_config, "body", BodyNull)
        base == [url |-> api_config.url, headers |-> headers]
    IN  IF method = GET THEN base @@ [verb |-> "GET", kwarg |-> "none"]
        ELSE LET content_type == Lower(Chars(HeaderGet(headers, "content-type", ""))) IN
             IF Contains(content_type, FORM_TYPE)
             THEN base @@ [verb |-> "POST", kwarg |-> "data", body |-> body]
             ELSE IF IsStructured(body)
             THEN base @@ [verb |-> "POST", kwarg |-> "json", body |-> body]
             ELSE base @@ [verb |-> "POST", kwarg |-> "data", body |-> body]

----------------------------------------------------------------------------
(* What the environment can supply *)

DIGITS == <<"0", "1", "2", "3", "4", "5", "6", "7", "8", "9">>

\* a text of n characters whose i-th character tells i modulo ten
Text(n) == [i \in 1..n |-> DIGITS[(i % 10) + 1]]

\* the query parameters of a request: absent, empty or a number
PHONE == <<"0", "1", "8", "1", "2", "3", "4", "5", "6", "7", "8">>
PhoneParams == {None, Some(EmptyStr), Some(PHONE)}
MobileParams == {None, Some(EmptyStr), Some(<<"7">>)}

\* what the `async with session` block of a call does in the fan-out
\* specification: "response" is a status and a body text read to the end,
\* "timeout" an asyncio.TimeoutError, "connection" an
\* aiohttp.ClientConnectionError, "other" any other exception with its text
NetCodes == {200, 404, 429}
NetOutcomes ==
    [kind : {"response"}, status : NetCodes, text : {Text(2)}]
    \cup {[kind |-> "timeout"], [kind |-> "connection"]}
    \cup [kind : {"other"}, msg : {Text(3)}]

----------------------------------------------------------------------------
(* api_v1 *)

\* Python truthiness of an Optional[str]
Truthy(opt) == opt /= None /\ opt[1] /= EmptyStr

\* phone or mobile
Or(a, b) == IF Truthy(a) THEN a ELSE b

NewTask == [state |-> "created", outcome |-> NoOutcome, result |-> None]

\* the calls awaited one after the other, in list order
RunnableInTurn(ts, i) ==
    /\ ts[i].state = "created"
    /\ \A k \in 1..(i - 1) : ts[k].state = "done"

\* gather schedules every coroutine of `tasks` at once: a task that has not
\* started can start whatever the state of the others
Runnable(ts, i) == ts[i].state = "created"

\* a wait that returns with the first finished task
AnyDone(ts) == ts = <<>> \/ \E i \in 1..Len(ts) : ts[i].state = "done"

\* asyncio.gather awaits every task
AllDone(ts) == \A i \in 1..Len(ts) : ts[i].state = "done"

RECURSIVE DoneResults(_, _)
DoneResults(ts, i) ==
    IF i > Len(ts) THEN <<>>
    ELSE (IF ts[i].state = "done" THEN <<ts[i].result[1]>> ELSE <<>>)
         \o DoneResults(ts, i + 1)

\* the results in the order the tasks finished
as_completed(ts, ord) == [k \in 1..Len(ord) |-> ts[ord[k]].result[1]]

\* asyncio.gather(*tasks, return_exceptions=True): the results of the finished
\* tasks by position in `tasks`, whatever the order ord they finished in
gather(ts, ord) == DoneResults(ts, 1)

IsException(result) == "exception" \in DOMAIN result

\* the loop that builds processed_results
\* result processing that leaves out what a task raised
ProcessResultsDropping(results) ==
    SelectSeq(results, LAMBDA result : ~IsException(result))

ProcessResults(results) ==
    [i \in 1..Len(results) |->
        IF IsException(results[i])
        THEN APIResult("unknown", "error", None, None,
                       Some(Slice(results[i].exception, EXCERPT)))
        ELSE results[i]]

\* sum(1 for r in processed_results if r.status in S)
RECURSIVE CountStatus(_, _)
CountStatus(results, S) ==
    IF results = <<>> THEN 0
    ELSE (IF Head(results).status \in S THEN 1 ELSE 0) + CountStatus(Tail(results), S)

\* the error bucket without `timeout`
ErrorStatusesNoTimeout ==
    {"error", "auth_error", "not_found", "server_error", "connection_error"}

\* the error bucket with `rate_limited` counted in it as well
ErrorStatusesRateLimited ==
    {"error", "auth_error", "not_found", "server_error", "connection_error", "timeout",
     "rate_limited"}

ErrorStatuses ==
    {"error", "auth_error", "not_found", "server_error", "connection_error", "timeout"}

\* the statistics and the APIResponse
\* a report whose total is the registry's size when the report is built
APIResponseCountingRegistry(phone, apis_r, processed_results) ==
    [phone |-> phone,
     total_apis |-> Len(apis_config),
     sent |-> CountStatus(processed_results, {"sent"}),
     errors |-> CountStatus(processed_results, ErrorStatuses),
     rate_limited |-> CountStatus(processed_results, {"rate_limited"}),
     skipped |-> CountStatus(processed_results, {"skipped"}),
     results |-> processed_results]

APIResponse(phone, apis_r, processed_results) ==
    [phone |-> phone,
     total_apis |-> Len(apis_r),
     sent |-> CountStatus(processed_results, {"sent"}),
     errors |-> CountStatus(processed_results, ErrorStatuses),
     rate_limited |-> CountStatus(processed_results, {"rate_limited"}),
     skipped |-> CountStatus(processed_results, {"skipped"}),
     results |-> processed_results]

\* no query string read yet
NoQuery == [phone |-> None, mobile |-> None]

\* the phone check that lets every value but None through
MissingNumberIsNone(mn) == mn = None

\* not mobile_number
MissingNumber(mn) == ~Truthy(mn)

\* api_v1 up to its await: the phone check, build_api_list, the task list
ApiV1Begin(r) ==
    /\ app = "running"
    /\ pc[r] = "idle"
    /\ \E phone \in PhoneParams, mobile \in MobileParams :
        LET mn == Or(phone, mobile) IN
        /\ query' = [query EXCEPT ![r] = [phone |-> phone, mobile |-> mobile]]
        /\ mobile_number' = [mobile_number EXCEPT ![r] = mn]
        /\ IF MissingNumber(mn) THEN
                /\ pc' = [pc EXCEPT ![r] = "rejected"]
                /\ UNCHANGED <<templates, apis, tasks, order, netCalls, report>>
                /\ UNCHANGED apis_config
           ELSE IF BuildRaises(apis_config) THEN
                /\ pc' = [pc EXCEPT ![r] = "failed"]
                /\ templates' = [templates EXCEPT ![r] = apis_config]
                /\ UNCHANGED <<apis, tasks, order, netCalls, report>>
                /\ UNCHANGED apis_config
           ELSE
                /\ pc' = [pc EXCEPT ![r] = "gather"]
                /\ templates' = [templates EXCEPT ![r] = apis_config]
                /\ apis' = [apis EXCEPT ![r] = build_api_list(mn[1])]
                /\ apis_config' = TemplatesAfterBuild(apis_config, variables, mn[1])
                /\ tasks' = [tasks EXCEPT ![r] = [i \in 1..Len(apis_config) |-> NewTask]]
                /\ UNCHANGED <<order, netCalls, report>>
    /\ UNCHANGED <<file, variables, lastLoad, loadedOnce, app, reloader, reload_reply>>
    /\ UNCHANGED callVars

\* a task runs call_api_sync up to its first await: it returns `skipped`
\* or opens the session and issues the request
TaskStart(r, i) ==
    /\ pc[r] = "gather"
    /\ Runnable(tasks[r], i)
    /\ IF SkipsNetwork(apis[r][i]) THEN
            /\ tasks' = [tasks EXCEPT ![r][i] =
                    [state |-> "done", outcome |-> NoOutcome,
                     result |-> Some(call_api_sync(apis[r][i], NoOutcome))]]
            /\ order' = [order EXCEPT ![r] = Append(@, i)]
            /\ UNCHANGED netCalls
       ELSE
            /\ tasks' = [tasks EXCEPT ![r][i].state = "inflight"]
            /\ netCalls' = [netCalls EXCEPT ![r] = @ \cup {i}]
            /\ UNCHANGED order
    /\ UNCHANGED <<pc, query, mobile_number, templates, apis, report>>
    /\ UNCHANGED regVars
    /\ UNCHANGED callVars

\* the network answers, times out or fails; call_api_sync returns
TaskComplete(r, i) ==
    /\ pc[r] = "gather"
    /\ tasks[r][i].state = "inflight"
    /\ \E outcome \in NetOutcomes :
        tasks' = [tasks EXCEPT ![r][i] =
                    [state |-> "done", outcome |-> outcome,
                     result |-> Some(call_api_sync(apis[r][i], outcome))]]
    /\ order' = [order EXCEPT ![r] = Append(@, i)]
    /\ UNCHANGED <<pc, query, mobile_number, templates, apis, netCalls, report>>
    /\ UNCHANGED regVars
    /\ UNCHANGED callVars

\* gather returns; api_v1 builds and returns the APIResponse
ApiV1Return(r) ==
    /\ pc[r] = "gather"
    /\ AllDone(tasks[r])
    /\ LET results == gather(tasks[r], order[r])
           processed_results == ProcessResults(results)
       IN report' = [report EXCEPT ![r] =
                        Some(APIResponse(mobile_number[r][1], apis[r], processed_results))]
    /\ pc' = [pc EXCEPT ![r] = "returned"]
    /\ UNCHANGED <<query, mobile_number, templates, apis, tasks, order, netCalls>>
    /\ UNCHANGED regVars
    /\ UNCHANGED callVars

\* the reply has been sent; the request's locals are gone
Finish(r) ==
    /\ pc[r] \in {"returned", "rejected", "failed"}
    /\ pc' = [pc EXCEPT ![r] = "idle"]
    /\ query' = [query EXCEPT ![r] = NoQuery]
    /\ mobile_number' = [mobile_number EXCEPT ![r] = None]
    /\ templates' = [templates EXCEPT ![r] = <<>>]
    /\ apis' = [apis EXCEPT ![r] = <<>>]
    /\ tasks' = [tasks EXCEPT ![r] = <<>>]
    /\ order' = [order EXCEPT ![r] = <<>>]
    /\ netCalls' = [netCalls EXCEPT ![r] = {}]
    /\ report' = [report EXCEPT ![r] = None]
    /\ UNCHANGED regVars
    /\ UNCHANGED callVars

----------------------------------------------------------------------------
(* The service *)

Requests == {1}

NoCall == [name |-> "unknown", url |-> EmptyStr, method |-> POST, headers |-> EmptyDict]

\* the module's globals and the request handlers before lifespan runs
InitService ==
    /\ apis_config = EmptyDict
    /\ variables = EmptyDict
    /\ lastLoad = "none"
    /\ loadedOnce = FALSE
    /\ app = "starting"
    /\ reloader = "none"
    /\ reload_reply = None
    /\ pc = [r \in Requests |-> "idle"]
    /\ query = [r \in Requests |-> NoQuery]
    /\ mobile_number = [r \in Requests |-> None]
    /\ templates = [r \in Requests |-> <<>>]
    /\ apis = [r \in Requests |-> <<>>]
    /\ tasks = [r \in Requests |-> <<>>]
    /\ order = [r \in Requests |-> <<>>]
    /\ netCalls = [r \in Requests |-> {}]
    /\ report = [r \in Requests |-> None]

NoResolve == [api_name |-> "none", api_data |-> EmptyDict, vmap |-> EmptyDict,
              mobile |-> EmptyStr]

\* the single-call and single-resolution variables, unused
InitNoCall ==
    /\ call_api = NoCall
    /\ call_outcome = NoOutcome
    /\ call_result = None
    /\ call_request = None

InitNoResolve ==
    /\ res_in = NoResolve
    /\ res_out = None

Init ==
    /\ file \in FileStates
    /\ InitService
    /\ InitNoCall
    /\ InitNoResolve

Next ==
    \/ Startup
    \/ PeriodicReload
    \/ reload_config_endpoint
    \/ Shutdown
    \/ EditFile
    \/ \E r \in DOMAIN pc : ApiV1Begin(r)
    \/ \E r \in DOMAIN pc : \E i \in 1..Len(tasks[r]) : TaskStart(r, i)
    \/ \E r \in DOMAIN pc : \E i \in 1..Len(tasks[r]) : TaskComplete(r, i)
    \/ \E r \in DOMAIN pc : ApiV1Return(r)
    \/ \E r \in DOMAIN pc : Finish(r)

Spec == Init /\ [][Next]_vars

----------------------------------------------------------------------------
(* call_api_sync as a function of the resolved request and of what the     *)
(* network does: every status code, empty to over-long response bodies and *)
(* error messages                                                          *)

MinStatusCode == 100
MaxStatusCode == 599
ExtraLen == 50

CallPhones == {PHONE, <<"7">>}

\* every request build_api_list can produce from the documents
CallApis ==
    UNION {{ResolveAll(d.apis, d.variables, m)[i] : i \in 1..Len(d.apis)} :
           d \in {DocA, DocB, DocC}, m \in CallPhones}

CallTexts == {EmptyStr, Text(3), Text(EXCERPT), Text(EXCERPT + 1)}
CallMsgs == {Text(n) : n \in {0, 1, EXCERPT - 1, EXCERPT, EXCERPT + 1, EXCERPT + ExtraLen}}

CallOutcomes ==
    [kind : {"response"}, status : MinStatusCode..MaxStatusCode, text : CallTexts]
    \cup {[kind |-> "timeout"], [kind |-> "connection"]}
    \cup [kind : {"other"}, msg : CallMsgs]

InitCall ==
    /\ file = "missing"
    /\ InitService
    /\ call_api \in CallApis
    /\ call_outcome \in CallOutcomes
    /\ call_result = None
    /\ call_request = None
    /\ InitNoResolve

\* one run of call_api_sync
CallApiSync ==
    /\ call_result = None
    /\ call_result' = Some(call_api_sync(call_api, call_outcome))
    /\ call_request' = IF SkipsNetwork(call_api) THEN None
                       ELSE Some(HttpRequest(call_api))
    /\ UNCHANGED <<call_api, call_outcome, res_in, res_out>>
    /\ UNCHANGED regVars
    /\ UNCHANGED reqVars

NextCall == CallApiSync

SpecCall == InitCall /\ [][NextCall]_vars

----------------------------------------------------------------------------
(* build_api_list's loop body as a function of one registry entry, of the  *)
(* variables and of the phone number                                       *)

ResolveDocs == {DocA, DocB, DocC, DocD}

\* the phone number is whatever text the caller sent
ResolvePhones == {PHONE, <<"7">>, NUMBER, <<"\"">>}

ResolveVmaps == {d.variables : d \in ResolveDocs} \cup {EmptyDict}

ResolveInputs ==
    UNION {{[api_name |-> d.apis[i][1], api_data |-> d.apis[i][2],
             vmap |-> v, mobile |-> m] :
            i \in 1..Len(d.apis), v \in ResolveVmaps, m \in ResolvePhones} :
           d \in ResolveDocs}

InitResolve ==
    /\ file = "docNone"
    /\ InitService
    /\ InitNoCall
    /\ res_in \in ResolveInputs
    /\ res_out = None

\* one iteration of build_api_list's loop
ResolveOne ==
    /\ res_out = None
    /\ res_out' = Some(ResolveEntry(res_in.api_name, res_in.api_data,
                                    res_in.vmap, res_in.mobile))
    /\ UNCHANGED res_in
    /\ UNCHANGED <<call_api, call_outcome, call_result, call_request>>
    /\ UNCHANGED regVars
    /\ UNCHANGED reqVars

NextResolve == ResolveOne

SpecResolve == InitResolve /\ [][NextResolve]_vars

----------------------------------------------------------------------------
(* The service over documents whose entries leave the data model: the file *)
(* holds one of them from the start and is not edited                      *)

InitOdd ==
    /\ file \in FileOddDocs
    /\ InitService
    /\ InitNoCall
    /\ InitNoResolve

NextOdd ==
    \/ Startup
    \/ PeriodicReload
    \/ reload_config_endpoint
    \/ Shutdown
    \/ \E r \in DOMAIN pc : ApiV1Begin(r)
    \/ \E r \in DOMAIN pc : \E i \in 1..Len(tasks[r]) : TaskStart(r, i)
    \/ \E r \in DOMAIN pc : \E i \in 1..Len(tasks[r]) : TaskComplete(r, i)
    \/ \E r \in DOMAIN pc : ApiV1Return(r)
    \/ \E r \in DOMAIN pc : Finish(r)

SpecOdd == InitOdd /\ [][NextOdd]_vars

----------------------------------------------------------------------------
(* Two api_v1 requests on the one event loop, over a registry loaded once  *)

Pair == {1, 2}

InitPair ==
    /\ file = "docA"
    /\ apis_config = EmptyDict
    /\ variables = EmptyDict
    /\ lastLoad = "none"
    /\ loadedOnce = FALSE
    /\ app = "starting"
    /\ reloader = "none"
    /\ reload_reply = None
    /\ pc = [r \in Pair |-> "idle"]
    /\ query = [r \in Pair |-> NoQuery]
    /\ mobile_number = [r \in Pair |-> None]
    /\ templates = [r \in Pair |-> <<>>]
    /\ apis = [r \in Pair |-> <<>>]
    /\ tasks = [r \in Pair |-> <<>>]
    /\ order = [r \in Pair |-> <<>>]
    /\ netCalls = [r \in Pair |-> {}]
    /\ report = [r \in Pair |-> None]
    /\ InitNoCall
    /\ InitNoResolve

NextPair ==
    \/ Startup
    \/ \E r \in DOMAIN pc : ApiV1Begin(r)
    \/ \E r \in DOMAIN pc : \E i \in 1..Len(tasks[r]) : TaskStart(r, i)
    \/ \E r \in DOMAIN pc : \E i \in 1..Len(tasks[r]) : TaskComplete(r, i)
    \/ \E r \in DOMAIN pc : ApiV1Return(r)
    \/ \E r \in DOMAIN pc : Finish(r)

SpecPair == InitPair /\ [][NextPair]_vars

----------------------------------------------------------------------------
(* The registry and its reloader alone: asyncio.sleep(interval) always     *)
(* ends, so the reloader's next iteration is taken whenever it stays due   *)

NextLive ==
    \/ Startup
    \/ PeriodicReload
    \/ reload_config_endpoint
    \/ Shutdown
    \/ EditFile

SpecLive == Init /\ [][NextLive]_vars /\ WF_vars(PeriodicReload)

----------------------------------------------------------------------------
(* Properties *)

FailLogs == {"not_found", "bad_json", "error"}

\* the registry contents a document yields when it is loaded whole
Snapshots ==
    {[apis |-> DictGet(d, "apis", EmptyDict),
      variables |-> DictGet(d, "variables", EmptyDict)] : d \in {DocA, DocB, DocNone}}

\* C1: once a configuration has been loaded, a load_config call that fails
\* (periodic or manual) leaves the endpoints and the variables as they were,
\* so the endpoint count is the same after it as before it.
C1_FailedReloadKeepsSnapshot ==
    [][(loadedOnce /\ lastLoad' \in FailLogs)
        => /\ Len(apis_config') = Len(apis_config)
           /\ apis_config' = apis_config
           /\ variables' = variables]_vars

\* C2: whatever reloads happen around it, a resolution's requests are those of
\* one whole document: endpoints and variables of the same load.
C2_ResolutionSeesOneSnapshot ==
    \A r \in DOMAIN pc :
        pc[r] \in {"gather", "returned"}
        => \E d \in Snapshots :
              apis[r] = ResolveAll(d.apis, d.variables, mobile_number[r][1])

\* a dispatch resolved from DocB is still in flight when a reload has
\* replaced the registry by DocA
C2_Witness ==
    /\ pc[1] = "gather"
    /\ apis[1] = ResolveAll(DocB.apis, DocB.variables, PHONE)
    /\ apis[1][2].headers = << <<"auth", "secretB">> >>
    /\ tasks[1][2].state = "inflight"
    /\ apis_config = DocA.apis
    /\ variables = DocA.variables

Categories ==
    {"sent", "auth_error", "not_found", "rate_limited", "server_error", "error",
     "timeout", "connection_error", "skipped"}

\* the number of results of a report whose category is in S
NumberOf(rep, S) == Cardinality({i \in 1..Len(rep.results) : rep.results[i].status \in S})

\* C3: the i-th result of a report is the outcome of the i-th resolved request,
\* itself the i-th endpoint of the registry, whatever the completion order.
C3_ResultsInRequestOrder ==
    \A r \in DOMAIN pc :
        pc[r] = "returned"
        => /\ Len(report[r][1].results) = Len(apis[r])
           /\ \A i \in 1..Len(apis[r]) :
                /\ report[r][1].results[i] = tasks[r][i].result[1]
                /\ report[r][1].results[i].name = apis[r][i].name
                /\ apis[r][i].name = DictGet(templates[r][i][2], "name", templates[r][i][1])

\* the second call completed first and its result is still second
C3_Witness ==
    /\ pc[1] = "returned"
    /\ order[1] = <<2, 1>>
    /\ report[1][1].results[1].name = "One"
    /\ report[1][1].results[1].status = "timeout"
    /\ report[1][1].results[2].name = "a2"
    /\ report[1][1].results[2].status = "sent"

\* C4: a report exists only once every call has reached a terminal outcome,
\* and it holds one result per resolved request.
C4_ReportAfterAllCalls ==
    \A r \in DOMAIN pc :
        report[r] /= None
        => /\ \A i \in 1..Len(apis[r]) :
                tasks[r][i].state = "done" /\ tasks[r][i].result /= None
           /\ Len(report[r][1].results) = Len(apis[r])
           /\ \A i \in 1..Len(report[r][1].results) :
                report[r][1].results[i].status \in Categories

\* a report of three results, one of them from a network call
C4_Witness ==
    /\ report[1] /= None
    /\ Len(report[1][1].results) = 3
    /\ netCalls[1] = {2}
    /\ report[1][1].results[2].status = "rate_limited"

\* the classification of section 4.3 of the design, by status code alone
CategoryOfCode(code) ==
    CASE code \in {200, 201, 202} -> "sent"
      [] code \in {400, 401, 403} -> "auth_error"
      [] code = 404 -> "not_found"
      [] code = 429 -> "rate_limited"
      [] code = 500 -> "server_error"
      [] code >= 400 /\ code \notin {400, 401, 403, 404, 429, 500} -> "error"
      [] OTHER -> "sent"

\* the category an endpoint gets when it is dispatched on its own
CategoryAlone(api, outcome) ==
    IF api.url = EmptyStr THEN "skipped"
    ELSE CASE outcome.kind = "response" -> CategoryOfCode(outcome.status)
           [] outcome.kind = "timeout" -> "timeout"
           [] outcome.kind = "connection" -> "connection_error"
           [] outcome.kind = "other" -> "error"

\* C5: a report of a dispatch in which a call timed out has one result per
\* endpoint, `timeout` for that call and for every other endpoint the category
\* it gets on its own; and while a dispatch is in flight no call waits for
\* another: a call that has not started can start, one in flight can complete.
C5_TimeoutIsolated ==
    \A r \in DOMAIN pc :
        /\ (pc[r] = "returned"
            /\ \E j \in 1..Len(tasks[r]) : tasks[r][j].outcome.kind = "timeout")
           => /\ Len(report[r][1].results) = Len(apis[r])
              /\ \A i \in 1..Len(apis[r]) :
                    report[r][1].results[i].status
                        = CategoryAlone(apis[r][i], tasks[r][i].outcome)
        /\ pc[r] = "gather"
           => \A i \in 1..Len(tasks[r]) :
                /\ tasks[r][i].state = "created" => ENABLED TaskStart(r, i)
                /\ tasks[r][i].state = "inflight" => ENABLED TaskComplete(r, i)

\* the first call timed out after the second had been answered 429
C5_Witness ==
    /\ pc[1] = "returned"
    /\ order[1] = <<2, 1>>
    /\ tasks[1][1].outcome.kind = "timeout"
    /\ report[1][1].results[1].status = "timeout"
    /\ report[1][1].results[2].status = "rate_limited"
    /\ Len(report[1][1].results) = 2

\* C6: in every report sent + errors + rate_limited + skipped = total_apis.
C6_CountsSumToTotal ==
    \A r \in DOMAIN pc :
        report[r] /= None
        => report[r][1].sent + report[r][1].errors + report[r][1].rate_limited
              + report[r][1].skipped = report[r][1].total_apis

\* a report with a skipped endpoint and a timed-out one
C6_Witness ==
    /\ report[1] /= None
    /\ report[1][1].total_apis = 3
    /\ report[1][1].skipped = 2
    /\ report[1][1].errors = 1
    /\ report[1][1].results[2].status = "timeout"

\* C7: each counter of a report is the number of results of its categories,
\* total_apis is the number of results, and a GET endpoint answered 200
\* followed by a POST endpoint answered 429 give 2, 1, 1, 0, 0 in that order.
C7_CountsByCategory ==
    \A r \in DOMAIN pc :
        report[r] /= None
        => LET rep == report[r][1] IN
           /\ rep.sent = NumberOf(rep, {"sent"})
           /\ rep.errors = NumberOf(rep, {"error", "auth_error", "not_found",
                                          "server_error", "connection_error", "timeout"})
           /\ rep.rate_limited = NumberOf(rep, {"rate_limited"})
           /\ rep.skipped = NumberOf(rep, {"skipped"})
           /\ rep.total_apis = Len(rep.results)
           /\ (/\ Len(apis[r]) = 2
               /\ apis[r][1].method = GET
               /\ apis[r][2].method = POST
               /\ tasks[r][1].outcome.kind = "response"
               /\ tasks[r][1].outcome.status = 200
               /\ tasks[r][2].outcome.kind = "response"
               /\ tasks[r][2].outcome.status = 429)
              => /\ rep.phone = mobile_number[r][1]
                 /\ rep.total_apis = 2 /\ rep.sent = 1 /\ rep.rate_limited = 1
                 /\ rep.errors = 0 /\ rep.skipped = 0
                 /\ rep.results[1].name = apis[r][1].name
                 /\ rep.results[1].status_code = Some(200)
                 /\ rep.results[2].name = apis[r][2].name
                 /\ rep.results[2].status_code = Some(429)

\* the report of the GET 200 / POST 429 registry for phone 01812345678
C7_Witness ==
    /\ report[1] /= None
    /\ report[1][1].phone = PHONE
    /\ templates[1] = DocA.apis
    /\ report[1][1].results[1].status_code = Some(200)
    /\ report[1][1].results[2].status_code = Some(429)
    /\ report[1][1].total_apis = 2
    /\ report[1][1].sent = 1
    /\ report[1][1].rate_limited = 1

\* C8: an endpoint whose configured url is empty or absent issues no network
\* call, ends `skipped`, and is `skipped` in the report.
C8_EmptyUrlSkipped ==
    \A r \in DOMAIN pc : \A i \in 1..Len(templates[r]) :
        (pc[r] \in {"gather", "returned"}
         /\ DictGet(templates[r][i][2], "url", EmptyStr) = EmptyStr)
        => /\ i \notin netCalls[r]
           /\ tasks[r][i].state /= "inflight"
           /\ tasks[r][i].state = "done" => tasks[r][i].result[1].status = "skipped"
           /\ report[r] /= None => report[r][1].results[i].status = "skipped"

\* a report over an empty url, a real one and an absent one
C8_Witness ==
    /\ pc[1] = "returned"
    /\ templates[1] = DocB.apis
    /\ netCalls[1] = {2}
    /\ report[1][1].results[1].status = "skipped"
    /\ report[1][1].results[2].status = "sent"
    /\ report[1][1].results[3].status = "skipped"

\* C9: the category of a call that got a response is a function of the status
\* code alone, as tabulated in CategoryOfCode, whatever the method, the
\* headers, the url or the response body.
C9_CategoryByStatusCode ==
    (call_result /= None /\ call_api.url /= EmptyStr /\ call_outcome.kind = "response")
    => /\ call_result[1].status = CategoryOfCode(call_outcome.status)
       /\ call_result[1].status_code = Some(call_outcome.status)

\* a GET answered 418 with an empty body
C9_Witness ==
    /\ call_result /= None
    /\ call_api.method = GET
    /\ call_outcome = [kind |-> "response", status |-> 418, text |-> EmptyStr]
    /\ call_result[1].status = "error"

\* C10: a call that gets no response ends `timeout` with "Request timeout
\* (15s)", `connection_error` with "Connection failed", or `error` with the
\* first 150 characters of the failure's message; never with a status code.
C10_FailureResults ==
    (call_result /= None /\ call_api.url /= EmptyStr /\ call_outcome.kind /= "response")
    => /\ call_result[1].status_code = None
       /\ call_result[1].response = None
       /\ call_outcome.kind = "timeout"
          => /\ call_result[1].status = "timeout"
             /\ call_result[1].error =
                  Some(<<"R", "e", "q", "u", "e", "s", "t", " ", "t", "i", "m", "e",
                         "o", "u", "t", " ", "(", "1", "5", "s", ")">>)
       /\ call_outcome.kind = "connection"
          => /\ call_result[1].status = "connection_error"
             /\ call_result[1].error =
                  Some(<<"C", "o", "n", "n", "e", "c", "t", "i", "o", "n", " ", "f",
                         "a", "i", "l", "e", "d">>)
       /\ call_outcome.kind = "other"
          => /\ call_result[1].status = "error"
             /\ Len(call_result[1].error[1]) <= 150
             /\ Len(call_result[1].error[1]) = Min(150, Len(call_outcome.msg))
             /\ \A k \in 1..Len(call_result[1].error[1]) :
                    call_result[1].error[1][k] = call_outcome.msg[k]

\* a failure whose message is longer than 150 characters
C10_Witness ==
    /\ call_result /= None
    /\ call_api.url /= EmptyStr
    /\ call_outcome.kind = "other"
    /\ Len(call_outcome.msg) = EXCERPT + ExtraLen
    /\ Len(call_result[1].error[1]) = 150
    /\ call_result[1].status = "error"

\* the declared headers of the entry being resolved
DeclaredHeaders == DictGet(res_in.api_data, "headers", EmptyDict)

\* C15: every resolved header keeps its name, and its value is the variable's
\* value when the declared value is exactly a key of the variable map and the
\* declared value itself in every other case.
C15_HeaderExactMatch ==
    res_out /= None
    => /\ Len(res_out[1].headers) = Len(DeclaredHeaders)
       /\ \A i \in 1..Len(DeclaredHeaders) :
             LET key == DeclaredHeaders[i][1]
                 value == DeclaredHeaders[i][2]
                 resolved == res_out[1].headers[i]
             IN  /\ resolved[1] = key
                 /\ (\E k \in DOMAIN res_in.vmap : k = value)
                        => resolved[2] = res_in.vmap[value]
                 /\ (\A k \in DOMAIN res_in.vmap : k /= value)
                        => resolved[2] = value

\* one entry resolved with a header that names a variable (whose value names
\* another variable), a header that only contains a variable's name and a
\* header that names no variable
C15_Witness ==
    /\ res_out /= None
    /\ res_in.api_name = "d1"
    /\ res_in.vmap = DocD.variables
    /\ res_out[1].headers = << <<"auth", "KEY">>, <<"accept", "TOKEN">>,
                               <<"content-type", "TOKENS">>,
                               <<"Content-Type", "token">> >>

\* the positions of a url where the placeholder starts
Occurrences(url) ==
    {p \in 1..Len(url) :
        /\ p + Len(NUMBER) - 1 <= Len(url)
        /\ SubSeq(url, p, p + Len(NUMBER) - 1) = NUMBER}

\* the url read from position i on, with the phone number in the place of
\* each placeholder and every other character as it is
RECURSIVE ExpectedFrom(_, _, _)
ExpectedFrom(url, mobile, i) ==
    IF i > Len(url) THEN <<>>
    ELSE IF i \in Occurrences(url)
         THEN mobile \o ExpectedFrom(url, mobile, i + Len(NUMBER))
         ELSE <<url[i]>> \o ExpectedFrom(url, mobile, i + 1)

\* C16: the resolved url is the declared url with the phone number in the
\* place of each {number}, whatever the variables are, and nothing else changed.
C16_UrlPlaceholderReplaced ==
    res_out /= None
    => LET url == DictGet(res_in.api_data, "url", EmptyStr) IN
       /\ res_out[1].url = ExpectedFrom(url, res_in.mobile, 1)
       /\ Len(res_out[1].url) =
              Len(url) + Cardinality(Occurrences(url))
                           * (Len(res_in.mobile) - Len(NUMBER))

\* a url made of two placeholders resolved for a phone number, with
\* variables in the map
C16_Witness ==
    /\ res_out /= None
    /\ res_in.api_name = "d1"
    /\ Cardinality(Occurrences(DictGet(res_in.api_data, "url", EmptyStr))) = 2
    /\ res_in.mobile = PHONE
    /\ res_in.vmap = DocD.variables
    /\ res_out[1].url = PHONE \o PHONE

\* str.strip() for the whitespace the body templates contain
RECURSIVE TrimLeft(_)
TrimLeft(s) == IF s /= <<>> /\ s[1] \in JsonWs THEN TrimLeft(Tail(s)) ELSE s

RECURSIVE TrimRight(_)
TrimRight(s) ==
    IF s /= <<>> /\ s[Len(s)] \in JsonWs
    THEN TrimRight(SubSeq(s, 1, Len(s) - 1))
    ELSE s

Trim(s) == TrimLeft(TrimRight(s))

\* C17: a string body, after the phone number is put in, becomes the parsed
\* value when its trimmed text is delimited as {...} or [...] and parses, stays
\* the substituted string when it is so delimited and does not parse, and a
\* structured body is resolved to itself.
C17_BodyParsedWhenDelimited ==
    (res_out /= None /\ "body" \in DOMAIN res_in.api_data)
    => LET body == res_in.api_data.body
           resolved == res_out[1].body
       IN  IF IsStr(body)
           THEN LET text == Replace(body.s, NUMBER, res_in.mobile) IN
                LooksLikeJson(Trim(text))
                => IF json_loads(text).ok
                   THEN resolved = json_loads(text).v
                   ELSE resolved = [t |-> "str", s |-> text]
           ELSE resolved = body

\* the request has a header named content-type, in any letter case, whose
\* value contains the form media type
HasFormHeader(headers) ==
    \E i \in 1..Len(headers) :
        /\ Lower(Chars(headers[i][1])) = Chars("content-type")
        /\ Contains(Lower(Chars(headers[i][2])), FORM_TYPE)

\* C18: a get request is issued as GET with its headers and no body; any
\* other method is issued as POST, carrying the body form-encoded (data=) when
\* a content-type header, compared case-insensitively, holds the form media
\* type, else as JSON (json=) when the body is structured, else verbatim (data=).
C18_RequestShape ==
    (call_result /= None /\ ~SkipsNetwork(call_api))
    => LET request == call_request[1]
           body == DictGet(call_api, "body", BodyNull)
       IN  /\ request.url = call_api.url
           /\ request.headers = call_api.headers
           /\ call_api.method = GET
              => /\ request.verb = "GET"
                 /\ request.kwarg = "none"
                 /\ "body" \notin DOMAIN request
           /\ call_api.method /= GET
              => /\ request.verb = "POST"
                 /\ request.body = body
                 /\ request.kwarg =
                        IF HasFormHeader(call_api.headers) THEN "data"
                        ELSE IF IsStructured(body) THEN "json"
                        ELSE "data"

\* C19: a result never has both a status code and an error message, and only
\* a skipped result has neither; a result made from a response has the status
\* code, no error and the first 150 characters of the body (nothing for an
\* empty body); a result made from a failure has an error message of at most
\* 150 characters, no status code and no excerpt.
C19_OneSidePopulated ==
    call_result /= None
    => LET result == call_result[1] IN
       /\ ~(result.status_code /= None /\ result.error /= None)
       /\ (result.status_code = None /\ result.error = None)
              <=> result.status = "skipped"
       /\ (~SkipsNetwork(call_api) /\ call_outcome.kind = "response")
          => /\ result.status_code = Some(call_outcome.status)
             /\ result.error = None
             /\ (result.response = None) <=> (call_outcome.text = EmptyStr)
             /\ result.response /= None
                => /\ Len(result.response[1]) <= 150
                   /\ Len(result.response[1]) <= Len(call_outcome.text)
                   /\ result.response[1] =
                          SubSeq(call_outcome.text, 1, Len(result.response[1]))
                   /\ Len(call_outcome.text) <= 150
                          => result.response[1] = call_outcome.text
       /\ (~SkipsNetwork(call_api) /\ call_outcome.kind /= "response")
          => /\ result.status_code = None
             /\ result.response = None
             /\ result.error /= None
             /\ Len(result.error[1]) <= 150

\* a response body of 151 characters cut to 150 next to its status code, and
\* no error message
C19_Witness ==
    /\ call_result /= None
    /\ call_outcome.kind = "response"
    /\ Len(call_outcome.text) = EXCERPT + 1
    /\ call_result[1].status_code = Some(404)
    /\ Len(call_result[1].response[1]) = 150
    /\ call_result[1].error = None

\* C11: whatever the registry holds, build_api_list returns: the dispatch is
\* never ended by resolution, there is one resolved request per entry, and
\* each is its entry's resolution with null or mistyped fields read as absent.
C11_ResolutionNeverFails ==
    \A r \in DOMAIN pc :
        pc[r] \in {"gather", "returned", "failed"}
        => /\ pc[r] /= "failed"
           /\ Len(apis[r]) = Len(templates[r])
           /\ \A i \in 1..Len(templates[r]) :
                 apis[r][i] = ResolveEntry(templates[r][i][1], templates[r][i][2],
                                           variables, mobile_number[r][1])

\* the result is the one of a failure: a transport failure or any other
\* exception inside call_api_sync, or an exception that left call_api_sync
FailedCall(api, outcome) ==
    IsNull(api, "name") \/ outcome.kind \in {"timeout", "connection", "other"}

NoNumberSent(q) ==
    /\ q.phone = None \/ q.phone = Some(EmptyStr)
    /\ q.mobile = None \/ q.mobile = Some(EmptyStr)

\* C13: a request that sent no phone number is rejected with nothing resolved,
\* no task created, no network call issued and no report; a request that is
\* resolved, dispatched or answered with a report did send a number.
C13_NoNumberRejected ==
    \A r \in DOMAIN pc :
        /\ (pc[r] /= "idle" /\ NoNumberSent(query[r]))
           => /\ pc[r] = "rejected"
              /\ templates[r] = <<>>
              /\ apis[r] = <<>>
              /\ tasks[r] = <<>>
              /\ netCalls[r] = {}
              /\ report[r] = None
        /\ pc[r] = "rejected" => NoNumberSent(query[r])

\* a request with an empty phone parameter and no mobile parameter has been
\* rejected while the registry holds two endpoints
C13_Witness ==
    \E r \in DOMAIN pc :
        /\ pc[r] = "rejected"
        /\ query[r] = [phone |-> Some(EmptyStr), mobile |-> None]
        /\ Len(apis_config) = 2
        /\ apis[r] = <<>>

\* C14: as long as no load has succeeded the registry has no endpoint and no
\* variable, and a dispatch in that state has nothing to resolve or call, does
\* return, and returns a report of zero endpoints with every counter zero.
C14_EmptyRegistryReport ==
    ~loadedOnce
    => /\ apis_config = EmptyDict
       /\ variables = EmptyDict
       /\ \A r \in DOMAIN pc :
             /\ pc[r] /= "failed"
             /\ pc[r] \in {"gather", "returned"}
                => /\ apis[r] = <<>>
                   /\ tasks[r] = <<>>
                   /\ netCalls[r] = {}
             /\ pc[r] = "gather" => ENABLED ApiV1Return(r)
             /\ pc[r] = "returned"
                => report[r] = Some([phone |-> mobile_number[r][1],
                                     total_apis |-> 0, sent |-> 0, errors |-> 0,
                                     rate_limited |-> 0, skipped |-> 0,
                                     results |-> <<>>])

\* the first load found no file, and a dispatch has returned its report
C14_Witness ==
    \E r \in DOMAIN pc :
        /\ ~loadedOnce
        /\ lastLoad = "not_found"
        /\ pc[r] = "returned"
        /\ report[r] /= None
        /\ report[r][1].total_apis = 0
        /\ report[r][1].phone = PHONE

\* C20: a step of a dispatch request (the phone check, resolution, a call
\* starting or ending, the report, the reply) leaves the stored endpoints and
\* variables as they were; a step that changes the registry leaves in it what
\* load_config reads from the file.
C20_DispatchLeavesRegistry ==
    [][/\ reqVars' /= reqVars
          => (apis_config' = apis_config /\ variables' = variables)
       /\ (apis_config' /= apis_config \/ variables' /= variables)
          => /\ apis_config' = load_config(file).apis_config
             /\ variables' = load_config(file).variables
             /\ lastLoad' = load_config(file).log]_vars

\* a dispatch over two endpoints has returned its report, with a network call
\* made, and the registry still holds the templates it resolved
C20_Witness ==
    \E r \in DOMAIN pc :
        /\ pc[r] = "returned"
        /\ Len(templates[r]) = 2
        /\ netCalls[r] /= {}
        /\ apis_config = templates[r]
        /\ apis[r] /= <<>>
        /\ \E i \in 1..Len(apis[r]) : apis[r][i].url /= templates[r][i][2].url

\* C21: a step that changes the reply of /reload-config reports the number of
\* endpoints the registry holds right after it, has read the file as it is at
\* that moment, and for a valid document leaves in the registry that
\* document's endpoints and variables and nothing else.
C21_ManualReloadReportsCount ==
    [][reload_reply' /= reload_reply
       => /\ reload_reply' = Some(Len(apis_config'))
          /\ file \in FileDocs
             => /\ lastLoad' = "loaded"
                /\ apis_config' = DictGet(JsonValue(file).v, "apis", EmptyDict)
                /\ variables' = DictGet(JsonValue(file).v, "variables", EmptyDict)
          /\ file \notin FileDocs => lastLoad' \in FailLogs]_vars

\* /reload-config has reported 3 endpoints for DocB, after a load of another
\* document had succeeded, and the registry holds DocB's endpoints and
\* variables only
C21_Witness ==
    /\ reload_reply = Some(3)
    /\ file = "docB"
    /\ lastLoad = "loaded"
    /\ apis_config = DocB.apis
    /\ variables = DocB.variables
    /\ \E r \in DOMAIN pc : pc[r] = "gather" /\ templates[r] = DocA.apis

\* the name build_api_list gives the request of a registry entry
TemplateName(entry) == DictGet(entry[2], "name", entry[1])

\* C22: whatever reloads happen while a dispatch's calls are in flight, the
\* dispatch keeps one request and one task per endpoint of the registry as it
\* was at resolution, and its report has one result per such endpoint, in
\* that order and under that endpoint's name, with total_apis the number of
\* results, whatever the registry holds when the report is built.
C22_ReloadDuringDispatch ==
    \A r \in DOMAIN pc :
        /\ pc[r] \in {"gather", "returned"}
           => /\ Len(apis[r]) = Len(templates[r])
              /\ Len(tasks[r]) = Len(templates[r])
              /\ \A i \in 1..Len(templates[r]) :
                    apis[r][i].name = TemplateName(templates[r][i])
        /\ pc[r] = "returned"
           => LET results == report[r][1].results IN
              /\ Len(results) = Len(templates[r])
              /\ report[r][1].total_apis = Len(results)
              /\ \A i \in 1..Len(templates[r]) :
                    /\ results[i].name = TemplateName(templates[r][i])
                    /\ results[i] = call_api_sync(apis[r][i], tasks[r][i].outcome)

\* a report of two results built when a reload in mid-dispatch has put three
\* endpoints in the registry
C22_Witness ==
    \E r \in DOMAIN pc :
        /\ pc[r] = "returned"
        /\ templates[r] = DocA.apis
        /\ apis_config = DocB.apis
        /\ netCalls[r] = {1, 2}
        /\ report[r][1].total_apis = 2
        /\ Len(report[r][1].results) = 2

\* C23: with two requests on the event loop, each request's resolved urls
\* carry its own phone number, its report carries its own phone number, and
\* the report's results are those of its own tasks, each the outcome of its
\* own resolved request, in place.
C23_RequestsDoNotInterfere ==
    \A r \in DOMAIN pc :
        /\ pc[r] \in {"gather", "returned"}
           => /\ mobile_number[r] = Or(query[r].phone, query[r].mobile)
              /\ Len(apis[r]) = Len(templates[r])
              /\ \A i \in 1..Len(apis[r]) :
                    apis[r][i].url =
                        Replace(DictGet(templates[r][i][2], "url", EmptyStr),
                                NUMBER, mobile_number[r][1])
        /\ pc[r] = "returned"
           => LET results == report[r][1].results IN
              /\ report[r][1].phone = mobile_number[r][1]
              /\ Len(results) = Len(apis[r])
              /\ \A i \in 1..Len(apis[r]) :
                    /\ results[i] = tasks[r][i].result[1]
                    /\ results[i] = call_api_sync(apis[r][i], tasks[r][i].outcome)

\* two requests for different phone numbers have both issued their calls and
\* returned their reports, with different outcomes for the same endpoint
C23_Witness ==
    /\ pc = [r \in Pair |-> "returned"]
    /\ mobile_number[1] = Some(PHONE)
    /\ mobile_number[2] = Some(<<"7">>)
    /\ netCalls = [r \in Pair |-> {1, 2}]
    /\ report[1][1].phone = PHONE
    /\ report[2][1].phone = <<"7">>
    /\ apis[1][1].url /= apis[2][1].url
    /\ report[1][1].results[1].status = "sent"
    /\ report[2][1].results[1].status = "timeout"

\* C24: while the service runs the reloader is in its loop, and it is out of
\* it only cancelled by shutdown; after a failed reload, a valid document that
\* stays in the file is eventually loaded unless the service shuts down, which
\* takes a further reload attempt.
C24_ReloaderKeepsRunning ==
    /\ [](app = "running" => reloader = "sleeping")
    /\ [](reloader \in {"none", "sleeping", "cancelled"})
    /\ [](reloader = "cancelled" <=> app = "stopped")
    /\ \A f \in FileDocs :
          (app = "running" /\ lastLoad \in FailLogs /\ file = f)
          ~> (lastLoad = "loaded" \/ file /= f \/ app = "stopped")

\* no manual reload has been made, a load has succeeded, a later periodic
\* reload has failed and the file holds a valid document again, with the
\* reloader in its loop
C24_Witness ==
    /\ app = "running"
    /\ reloader = "sleeping"
    /\ reload_reply = None
    /\ loadedOnce
    /\ lastLoad \in FailLogs
    /\ file = "docA"

====
